---- MODULE Spec2Model ----
(***************************************************************************)
(* Retrograde analysis of Gobblet Gobblers and similar 3x3 Tic Tac Toe     *)
(* variants (gobblet.cpp).                                                  *)
(*                                                                         *)
(* Representation.  A State is a 64-bit word.  It is written here in base  *)
(* 64: the low 54 bits are a tuple of nine 6-bit squares (square k of the  *)
(* code is element k+1 of the tuple) and the upper 10 bits are one number  *)
(* in 0..1023.  Every shift of the code on the low 54 bits is by a         *)
(* multiple of 6 and every mask covers whole squares, so shifts and masks  *)
(* are movements of squares; unsigned comparison of words is comparison of *)
(* the upper 10 bits first and then of the squares from square 8 down to   *)
(* square 0.  Inside a square the bits are handled arithmetically.         *)
(***************************************************************************)
EXTENDS Integers, Sequences, FiniteSets, TLC

VARIABLES
    rules,      \* [num_sizes, num_per_size, allow_move] of the Game object
    hash_map,   \* stored words: function from the low 54 bits to the upper 10
    q,          \* search(): queue of states still to expand
    solved,     \* search()/solve(): queue of solved win/loss states
    pc,         \* "init", "search", "solve", "done" (init returned), "play";
                \* in play(): "loop", "prompt", "over", "aborted", "undefined"
    best,       \* last best_move() call: <<s, move>> or <<>>
    board,      \* a bare board handed to the rules, <<>> if none
    out,        \* what the last call on board or pin returned, <<>> if none
    pin,        \* <<value, moves>> handed to pack(), <<>> if none
    table,      \* hash_map as the vector of words it is, <<>> if not looked at
    probe,      \* the call of lookup() in progress or just returned, else <<>>
    history,    \* play(): the vector `states` of positions, the last is current
    turn        \* play(): the player to move, 1 or 2; 0 before play is called

vars == <<rules, hash_map, q, solved, pc, best, board, out, pin,
          table, probe, history, turn>>

----------------------------------------------------------------------------
(* Bounds of the model *)

\* how many of the rule variants of RuleList the solver is run on
NumRules == 3

\* on a bare board, pieces are stacked on squares 0 .. GobbleSquares-1 only
GobbleSquares == 1

\* largest move count handed to pack()
MaxCount == 127

----------------------------------------------------------------------------
(* Words and boards *)

Squares == 1..9

ZeroBoard == <<0, 0, 0, 0, 0, 0, 0, 0, 0>>

\* const State STATE_EMPTY = 0x3: upper bits 0, square 0 holds 0b000011
STATE_EMPTY == <<0, <<3, 0, 0, 0, 0, 0, 0, 0, 0>>>>

\* a < b on the low 54 bits: the highest square that differs decides
BoardLess(a, b) ==
    IF a[9] # b[9] THEN a[9] < b[9]
    ELSE IF a[8] # b[8] THEN a[8] < b[8]
    ELSE IF a[7] # b[7] THEN a[7] < b[7]
    ELSE IF a[6] # b[6] THEN a[6] < b[6]
    ELSE IF a[5] # b[5] THEN a[5] < b[5]
    ELSE IF a[4] # b[4] THEN a[4] < b[4]
    ELSE IF a[3] # b[3] THEN a[3] < b[3]
    ELSE IF a[2] # b[2] THEN a[2] < b[2]
    ELSE a[1] < b[1]

\* slip: only the low 54 bits are compared
WordLessKeyOnly(a, b) == BoardLess(a[2], b[2])

\* a < b on whole 64-bit words <<upper 10 bits, squares>>
WordLess(a, b) ==
    IF a[1] # b[1] THEN a[1] < b[1] ELSE BoardLess(a[2], b[2])

Pow2(n) == 2 ^ n

\* v ^ (1 << bit) on one 6-bit square
XorBit(v, bit) ==
    IF (v \div Pow2(bit)) % 2 = 1 THEN v - Pow2(bit) ELSE v + Pow2(bit)

\* for (size = 0; pieces != 0; ++size, pieces >>= 2);
RECURSIVE StackSize(_)
StackSize(pieces) == IF pieces = 0 THEN 0 ELSE 1 + StackSize(pieces \div 4)

\* for (; pieces > 0x3; pieces >>= 2);
RECURSIVE TopField(_)
TopField(pieces) == IF pieces > 3 THEN TopField(pieces \div 4) ELSE pieces

\* owner left by the loop "owner = pieces & 0x3" run to pieces == 0
RECURSIVE LastOwner(_, _)
LastOwner(pieces, owner) ==
    IF pieces = 0 THEN owner ELSE LastOwner(pieces \div 4, pieces % 4)

----------------------------------------------------------------------------
(* pack / unpack_value / unpack_moves, on the upper 10 bits *)

\* x ^ (1 << 8) on the upper 10 bits, i.e. ^ (1ull << 62) on the word
XorResolved(x) == IF (x \div 256) % 2 = 1 THEN x - 256 ELSE x + 256

\* slip: the count of a draw or loss is stored as it is, not as -(moves + 1)
pack_plain(value, moves) ==
    LET base  == IF value = -1 THEN 0 ELSE 256
        count == moves % 1024
    IN  IF base = 0 THEN count ELSE XorResolved(count)

pack(value, moves) ==
    LET base  == IF value = -1 THEN 0 ELSE 256
        count == (IF value = 1 THEN moves ELSE 0 - (moves + 1)) % 1024
    IN  IF base = 0 THEN count ELSE XorResolved(count)

\* slip: a word without its two top bits reads as an unsolved draw
unpack_value_unset_as_draw(hi) == IF hi < 256 THEN 0 ELSE 2 - (hi \div 256)

unpack_value(hi) == 2 - (hi \div 256)

unpack_moves(hi) ==
    LET low   == hi % 256
        moves == IF low >= 128 THEN low - 256 ELSE low
    IN  IF moves < 0 THEN (0 - moves) - 1 ELSE moves

----------------------------------------------------------------------------
(* The Gobblet rules: move, swap, canonical, get_terminal_value *)

\* s ^ (0x1ull << (6 * square + 2 * (size - 1))), for size in 1..3
XorPiece(s, square, size) ==
    [s EXCEPT ![square + 1] = XorBit(@, 2 * (size - 1))]

\* Move m is <<start, end>>
move(s, m) ==
    LET start == m[1]
        end   == m[2]
        size  == IF start >= 0 THEN StackSize(s[start + 1]) ELSE 0 - start
        s1    == IF start >= 0 THEN XorPiece(s, start, size) ELSE s
    IN  XorPiece(s1, end, size)

\* one 2-bit field: ((f & 0b10) >> 1) | ((f & 0b01) << 1)
SwapField(f) == (f \div 2) + 2 * (f % 2)

SwapSquare(v) ==
    SwapField(v % 4) + 4 * SwapField((v \div 4) % 4) + 16 * SwapField(v \div 16)

swap(s) ==
    <<SwapSquare(s[1]), SwapSquare(s[2]), SwapSquare(s[3]),
      SwapSquare(s[4]), SwapSquare(s[5]), SwapSquare(s[6]),
      SwapSquare(s[7]), SwapSquare(s[8]), SwapSquare(s[9])>>

\* ((s << 36) & 0x3ffff000000000) | (s & 0xffffc0000) | (s >> 36)
\* squares 0..2 go to 6..8, squares 3..5 stay, squares 6..8 go to 0..2
flipud(s) == <<s[7], s[8], s[9], s[4], s[5], s[6], s[1], s[2], s[3]>>

\* ((s << 48) & 0x3f000000000000) | ((s << 24) & 0xfc0fc0000000) |
\* (s & 0x3f03f03f000) | ((s >> 24) & 0xfc0fc0) | (s >> 48)
\* square 0 goes to 8; 1 and 3 go to 5 and 7; 2, 4, 6 stay; 5 and 7 go to
\* 1 and 3; square 8 goes to 0
antitranspose(s) == <<s[9], s[6], s[3], s[8], s[5], s[2], s[7], s[4], s[1]>>

MinBoard(a, b) == IF BoardLess(a, b) THEN a ELSE b

\* slip: the enumeration stops after four of the eight images
canonical_half(s) ==
    LET s1 == flipud(s)
        s2 == antitranspose(s1)
        s3 == flipud(s2)
    IN  MinBoard(s3, MinBoard(s2, MinBoard(s1, s)))

canonical(s) ==
    LET s1 == flipud(s)
        s2 == antitranspose(s1)
        s3 == flipud(s2)
        s4 == antitranspose(s3)
        s5 == flipud(s4)
        s6 == antitranspose(s5)
        s7 == flipud(s6)
    IN  MinBoard(s7, MinBoard(s6, MinBoard(s5, MinBoard(s4,
            MinBoard(s3, MinBoard(s2, MinBoard(s1, s)))))))

\* const int lines[8][3], squares numbered 0..8
lines == << <<0, 1, 2>>, <<3, 4, 5>>, <<6, 7, 8>>,
            <<0, 3, 6>>, <<1, 4, 7>>, <<2, 5, 8>>,
            <<0, 4, 8>>, <<2, 4, 6>> >>

\* slip: the piece at the bottom of a stack is taken for its owner
line_winner_bottom(s, line) ==
    LET p1 == s[line[1] + 1] % 4
        p2 == s[line[2] + 1] % 4
        p3 == s[line[3] + 1] % 4
    IN  IF p1 = 0 THEN 0
        ELSE IF p2 = 0 \/ p2 # p1 THEN 0
        ELSE IF p3 = 0 \/ p3 # p1 THEN 0
        ELSE p1

\* the inner loop of get_terminal_value over the three squares of one line
line_winner(s, line) ==
    LET p1 == TopField(s[line[1] + 1])
        p2 == TopField(s[line[2] + 1])
        p3 == TopField(s[line[3] + 1])
    IN  IF p1 = 0 THEN 0
        ELSE IF p2 = 0 \/ p2 # p1 THEN 0
        ELSE IF p3 = 0 \/ p3 # p1 THEN 0
        ELSE p1

\* the outer loop of get_terminal_value from line i on, with the value so far
RECURSIVE TerminalFrom(_, _, _)
TerminalFrom(s, i, value) ==
    IF i > 8 THEN value
    ELSE LET w == line_winner(s, lines[i])
         IN  IF w = 1 THEN 1
             ELSE IF w = 2 THEN TerminalFrom(s, i + 1, -1)
             ELSE TerminalFrom(s, i + 1, value)

get_terminal_value(s) == TerminalFrom(s, 1, 0)

----------------------------------------------------------------------------
(* get_moves and get_unmoves *)

\* the 2-bit field of the given size (1..3) of a square
Field(v, size) == (v \div Pow2(2 * (size - 1))) % 4

\* played[size - 1] after the first loop of get_moves
played(s, size) == Cardinality({i \in Squares : Field(s[i], size) = 1})

\* 0x1u << (2 * (size - 1)) > pieces
Fits(size, pieces) == Pow2(2 * (size - 1)) > pieces

\* <<start, end>> for start, end in 0..8, start-major as the nested loops run
SquarePairs == [k \in 1..81 |-> <<(k - 1) \div 9, (k - 1) % 9>>]

\* <<-size, end>> for size in 1..3, end in 0..8, size-major
PlacePairs == [k \in 1..27 |-> <<0 - (1 + ((k - 1) \div 9)), (k - 1) % 9>>]

\* the pairs that reach the "Move m{start, end}" line of the first loop
MoveCandidates(s) ==
    LET Ok(m) == /\ rules.allow_move
                 /\ LastOwner(s[m[1] + 1], 0) = 1
                 /\ Fits(StackSize(s[m[1] + 1]), s[m[2] + 1])
    IN  SelectSeq(SquarePairs, Ok)

\* slip: a size may still be played when all its pieces are on the board
PlaceCandidatesOneMore(s) ==
    LET Ok(m) == /\ 0 - m[1] <= rules.num_sizes
                 /\ played(s, 0 - m[1]) <= rules.num_per_size
                 /\ Fits(0 - m[1], s[m[2] + 1])
    IN  SelectSeq(PlacePairs, Ok)

\* the pairs that reach the "Move m{-size, end}" line of the second loop
PlaceCandidates(s) ==
    LET Ok(m) == /\ 0 - m[1] <= rules.num_sizes
                 /\ played(s, 0 - m[1]) < rules.num_per_size
                 /\ Fits(0 - m[1], s[m[2] + 1])
    IN  SelectSeq(PlacePairs, Ok)

\* "if (states.find(next) == states.end())" over the candidates from k on
RECURSIVE DistinctMoves(_, _, _, _, _)
DistinctMoves(s, cands, k, moves, states) ==
    IF k > Len(cands) THEN moves
    ELSE LET next == canonical(swap(move(s, cands[k])))
         IN  IF next \in states
             THEN DistinctMoves(s, cands, k + 1, moves, states)
             ELSE DistinctMoves(s, cands, k + 1, Append(moves, cands[k]),
                                states \cup {next})

\* slip: every candidate is listed, symmetric ones included
get_moves_all(s) == MoveCandidates(s) \o PlaceCandidates(s)

get_moves(s) ==
    DistinctMoves(s, MoveCandidates(s) \o PlaceCandidates(s), 1, <<>>, {})

\* slip: a placed piece is never taken back
UnmovesAtNoUnplay(s, end) ==
    LET size == StackSize(s[end + 1])
        back == IF rules.allow_move
                THEN {move(s, <<end, start>>) : start \in
                        {st \in 0..8 : Fits(size, s[st + 1])}}
                ELSE {}
    IN  {canonical(prev) : prev \in {p \in back : get_terminal_value(p) = 0}}

\* the predecessors that get_unmoves inserts for the piece on top of square end
UnmovesAt(s, end) ==
    LET size == StackSize(s[end + 1])
        back == IF rules.allow_move
                THEN {move(s, <<end, start>>) : start \in
                        {st \in 0..8 : Fits(size, s[st + 1])}}
                ELSE {}
        prevs == back \cup {move(s, <<0 - size, end>>)}
    IN  {canonical(prev) : prev \in {p \in prevs : get_terminal_value(p) = 0}}

\* slip: the pieces of the side to move are taken back, not the last mover's
get_unmoves_same_side(s0) ==
    UNION {UnmovesAt(s0, end) : end \in
            {e \in 0..8 : LastOwner(s0[e + 1], 0) = 1}}

get_unmoves(s0) ==
    LET s == swap(s0)
    IN  UNION {UnmovesAt(s, end) : end \in
                {e \in 0..8 : LastOwner(s[e + 1], 0) = 1}}

\* a std::set<State> in iteration order (ascending)
RECURSIVE InOrder(_)
InOrder(set) ==
    IF set = {} THEN <<>>
    ELSE LET least == CHOOSE a \in set : \A b \in set : a = b \/ BoardLess(a, b)
         IN  <<least>> \o InOrder(set \ {least})

----------------------------------------------------------------------------
(* The hash map, search, solve and best_move *)

\* *lookup(s): the word in the slot of key s, STATE_EMPTY if s is not stored
Slot(h, s) == IF s \in DOMAIN h THEN <<h[s], s>> ELSE STATE_EMPTY

\* *lookup(s) = s | (hi << 54)
Store(h, s, hi) ==
    IF s \in DOMAIN h THEN [h EXCEPT ![s] = hi] ELSE (s :> hi) @@ h

\* slip: the successor is stored as it stands, not reduced by symmetry
next_state_as_moved(current, m) == swap(move(current, m))

\* State next = canonical(swap(move(current, m)));
next_state(current, m) == canonical(swap(move(current, m)))

\* slip: the counter starts one too high
tentative_draw_one_more(moves) == pack(0, Len(moves) + 1)

\* pack(0, moves.size()): tentative draw with one count per listed move
tentative_draw(moves) == pack(0, Len(moves))

\* slip: the first reply that wins for the opponent already counts as the last
remaining_moves_none(prev_hi) == 0

\* slip: the counter of possible winning moves is counted up
remaining_moves_up(prev_hi) == unpack_moves(prev_hi) + 1

\* std::size_t moves = unpack_moves(*prev_ptr); --moves
remaining_moves(prev_hi) == unpack_moves(prev_hi) - 1

\* slip: a loss is recorded without the number of moves it takes
loss_word_no_depth(cur_hi) == pack(-1, 0)

\* slip: a loss takes over the depth of the successor that settled it
loss_word_same_depth(cur_hi) == pack(-1, unpack_moves(cur_hi))

\* pack(-1, unpack_moves(*current_ptr) + 1)
loss_word(cur_hi) == pack(-1, unpack_moves(cur_hi) + 1)

\* slip: a win takes over the depth of the successor that settled it
win_word_same_depth(cur_hi) == pack(1, unpack_moves(cur_hi))

\* pack(1, unpack_moves(*current_ptr) + 1)
win_word(cur_hi) == pack(1, unpack_moves(cur_hi) + 1)

\* slip: a successor is queued whether or not its slot was empty
RECURSIVE ExpandAlwaysPush(_, _, _, _)
ExpandAlwaysPush(st, current, moves, k) ==
    IF k > Len(moves) THEN st
    ELSE LET next == next_state(current, moves[k])
         IN  ExpandAlwaysPush(<<Store(st[1], next, Slot(st[1], next)[1]),
                                Append(st[2], next)>>, current, moves, k + 1)

\* the loop "for (auto& m : moves)" of search from move k on; st = <<table, q>>
RECURSIVE Expand(_, _, _, _)
Expand(st, current, moves, k) ==
    IF k > Len(moves) THEN st
    ELSE LET next == next_state(current, moves[k])
         IN  IF Slot(st[1], next) = STATE_EMPTY
             THEN Expand(<<Store(st[1], next, 0), Append(st[2], next)>>,
                         current, moves, k + 1)
             ELSE Expand(st, current, moves, k + 1)

\* the loop "for (auto& prev : get_unmoves(current))" of solve from k on;
\* st = <<table, solved>>
RECURSIVE Propagate(_, _, _, _)
Propagate(st, current, prevs, k) ==
    IF k > Len(prevs) THEN st
    ELSE LET prev     == prevs[k]
             prev_hi  == Slot(st[1], prev)[1]
             cur_hi   == Slot(st[1], current)[1]
             moves    == remaining_moves(prev_hi)
             st1 ==
               IF unpack_value(prev_hi) = 0
               THEN IF unpack_value(cur_hi) = 1
                    THEN IF moves # 0
                         THEN <<Store(st[1], prev, pack(0, moves)), st[2]>>
                         ELSE <<Store(st[1], prev, loss_word(cur_hi)),
                                Append(st[2], prev)>>
                    ELSE <<Store(st[1], prev, win_word(cur_hi)),
                           Append(st[2], prev)>>
               ELSE st
         IN  Propagate(st1, current, prevs, k + 1)

\* the loop of best_move from move k on; acc = <<max_next, best>>
RECURSIVE BestFrom(_, _, _, _)
BestFrom(s, moves, k, acc) ==
    IF k > Len(moves) THEN acc[2]
    ELSE LET next == Slot(hash_map, canonical(swap(move(s, moves[k]))))
         IN  IF WordLess(acc[1], next)
             THEN BestFrom(s, moves, k + 1, <<next, moves[k]>>)
             ELSE BestFrom(s, moves, k + 1, acc)

best_move(s) == BestFrom(s, get_moves(s), 1, <<<<0, ZeroBoard>>, <<0, 0>>>>)

----------------------------------------------------------------------------
(* The solver: Game::init runs search(0), then solve; play asks best_move *)

Rule(n, p, a) == [num_sizes |-> n, num_per_size |-> p, allow_move |-> a]

\* rule variants small enough to be solved state by state
RuleList == << Rule(1, 5, FALSE), Rule(1, 3, TRUE), Rule(2, 1, TRUE),
               Rule(1, 4, FALSE), Rule(1, 2, TRUE) >>

EmptyMap == [s \in {} |-> 0]

NoBoard == <<>>

\* no vector looked at, no lookup() and no play() in progress
Unused ==
    /\ table = <<>>
    /\ probe = <<>>
    /\ history = <<>>
    /\ turn = 0

Idle == /\ board = NoBoard
        /\ out = <<>>
        /\ pin = <<>>
        /\ Unused

Init ==
    /\ rules \in {RuleList[i] : i \in 1..NumRules}
    /\ hash_map = EmptyMap
    /\ q = <<>>
    /\ solved = <<>>
    /\ pc = "init"
    /\ best = <<>>
    /\ Idle

\* q.push(s0); *lookup(s0) = s0;
StartSearch ==
    /\ pc = "init"
    /\ q' = <<ZeroBoard>>
    /\ hash_map' = Store(hash_map, ZeroBoard, 0)
    /\ pc' = "search"
    /\ UNCHANGED <<rules, solved, best, board, out, pin>>
    /\ UNCHANGED <<table, probe, history, turn>>

\* one iteration of "while (!q.empty())" in search
SearchStep ==
    /\ pc = "search"
    /\ q # <<>>
    /\ LET current == Head(q)
           value   == get_terminal_value(current)
           moves   == get_moves(current)
           st      == Expand(<<Store(hash_map, current, tentative_draw(moves)),
                               Tail(q)>>, current, moves, 1)
       IN  IF value # 0
           THEN /\ hash_map' = Store(hash_map, current, pack(value, 0))
                /\ solved' = Append(solved, current)
                /\ q' = Tail(q)
           ELSE /\ hash_map' = st[1]
                /\ q' = st[2]
                /\ solved' = solved
    /\ UNCHANGED <<rules, pc, best, board, out, pin>>
    /\ UNCHANGED <<table, probe, history, turn>>

\* search returns its queue of solved states to solve
SearchDone ==
    /\ pc = "search"
    /\ q = <<>>
    /\ pc' = "solve"
    /\ UNCHANGED <<rules, hash_map, q, solved, best, board, out, pin>>
    /\ UNCHANGED <<table, probe, history, turn>>

\* one iteration of "while (!solved.empty())" in solve
SolveStep ==
    /\ pc = "solve"
    /\ solved # <<>>
    /\ LET current == Head(solved)
           st == Propagate(<<hash_map, Tail(solved)>>, current,
                           InOrder(get_unmoves(current)), 1)
       IN  /\ hash_map' = st[1]
           /\ solved' = st[2]
    /\ UNCHANGED <<rules, q, pc, best, board, out, pin>>
    /\ UNCHANGED <<table, probe, history, turn>>

SolveDone ==
    /\ pc = "solve"
    /\ solved = <<>>
    /\ pc' = "done"
    /\ UNCHANGED <<rules, hash_map, q, solved, best, board, out, pin>>
    /\ UNCHANGED <<table, probe, history, turn>>

\* play() asks best_move for a stored position
BestMove ==
    /\ pc = "done"
    /\ \E s \in DOMAIN hash_map : best' = <<s, best_move(s)>>
    /\ pc' = "play"
    /\ UNCHANGED <<rules, hash_map, q, solved, board, out, pin>>
    /\ UNCHANGED <<table, probe, history, turn>>

Next ==
    \/ StartSearch
    \/ SearchStep
    \/ SearchDone
    \/ SolveStep
    \/ SolveDone
    \/ BestMove

Spec == Init /\ [][Next]_vars

----------------------------------------------------------------------------
(* What the solved table says about a stored state *)

Stored == DOMAIN hash_map

Value(s) == unpack_value(hash_map[s])

Depth(s) == unpack_moves(hash_map[s])

Range(seq) == {seq[k] : k \in 1..Len(seq)}

\* the successors of s: canonical(swap(move(s, m))) for m in get_moves(s)
Successors(s) == {canonical(swap(move(s, m))) : m \in Range(get_moves(s))}

StoredWith(set, v) == {x \in set : x \in Stored /\ Value(x) = v}

Least(nums) == CHOOSE n \in nums : \A k \in nums : n <= k

Greatest(nums) == CHOOSE n \in nums : \A k \in nums : n >= k

NonTerminal == {s \in Stored : get_terminal_value(s) = 0}

\* C1: once init has returned, every stored non-terminal state with value +1
\* has a successor stored with value -1, and its depth is one more than the
\* least depth among its successors of value -1.
C1_WinConsistency ==
    pc = "done" =>
        \A s \in NonTerminal :
            Value(s) = 1 =>
                LET losing == StoredWith(Successors(s), -1)
                IN  /\ losing # {}
                    /\ Depth(s) = 1 + Least({Depth(x) : x \in losing})

C1_Witness ==
    /\ pc = "done"
    /\ \E s \in NonTerminal :
        /\ Value(s) = 1
        /\ Depth(s) = 3
        /\ \E x \in StoredWith(Successors(s), -1) : Depth(x) > 2

\* C2: once init has returned, every stored non-terminal state with value -1
\* has all its successors stored with value +1, and its depth is one more
\* than the greatest depth among its successors.
C2_LossConsistency ==
    pc = "done" =>
        \A s \in NonTerminal :
            Value(s) = -1 =>
                LET succ == Successors(s)
                IN  /\ succ # {}
                    /\ StoredWith(succ, 1) = succ
                    /\ Depth(s) = 1 + Greatest({Depth(x) : x \in succ})

C2_Witness ==
    /\ pc = "done"
    /\ \E s \in NonTerminal :
        /\ Value(s) = -1
        /\ Depth(s) = 4
        /\ \E x \in Successors(s) : Depth(x) = 1

\* C3 as stated: once solve has drained its queue, every stored state with
\* value 0 has no successor of value -1 and has a successor of value 0.
C3_DrawHasDrawSuccessor ==
    pc = "done" =>
        \A s \in Stored :
            Value(s) = 0 =>
                /\ StoredWith(Successors(s), -1) = {}
                /\ StoredWith(Successors(s), 0) # {}

\* C3 amended: once solve has drained its queue, every stored state with
\* value 0 has no successor of value -1, and either has no move at all or
\* has a successor of value 0.
C3_DrawConsistency ==
    pc = "done" =>
        \A s \in Stored :
            Value(s) = 0 =>
                /\ StoredWith(Successors(s), -1) = {}
                /\ \/ get_moves(s) = <<>>
                   \/ StoredWith(Successors(s), 0) # {}

C3_Witness ==
    /\ pc = "done"
    /\ \E s \in Stored : Value(s) = 0 /\ get_moves(s) = <<>>
    /\ \E s \in Stored :
        /\ Value(s) = 0
        /\ StoredWith(Successors(s), 1) # {}
        /\ StoredWith(Successors(s), 0) # {}

\* C4: for a stored non-terminal state with a legal move, best_move returns
\* one of get_moves whose successor word is the unsigned maximum over all
\* successors; that successor is a loss of least depth if a successor is a
\* loss, else a draw if a successor is a draw, else the win of greatest depth.
C4_BestMoveChoice ==
    pc = "play" =>
        LET s      == best[1]
            chosen == canonical(swap(move(s, best[2])))
            succ   == Successors(s)
            losing == StoredWith(succ, -1)
            draws  == StoredWith(succ, 0)
        IN  (get_terminal_value(s) = 0 /\ get_moves(s) # <<>>) =>
                /\ best[2] \in Range(get_moves(s))
                /\ \A x \in succ \ {chosen} :
                       WordLess(Slot(hash_map, x), Slot(hash_map, chosen))
                /\ IF losing # {}
                   THEN /\ chosen \in losing
                        /\ Depth(chosen) = Least({Depth(x) : x \in losing})
                   ELSE IF draws # {}
                   THEN chosen \in draws
                   ELSE /\ Value(chosen) = 1
                        /\ Depth(chosen) = Greatest({Depth(x) : x \in succ})

C4_Witness ==
    /\ pc = "play"
    /\ get_terminal_value(best[1]) = 0
    /\ LET succ   == Successors(best[1])
           losing == StoredWith(succ, -1)
       IN  /\ \E x, y \in losing : Depth(x) < Depth(y)
           /\ StoredWith(succ, 0) # {}
           /\ StoredWith(succ, 1) # {}

TicTacToe == Rule(1, 5, FALSE)

\* C6: with num_sizes=1, num_per_size=5, allow_move=false, once search and
\* solve have finished the word stored for board 0 has value 0.
C6_TicTacToeIsDraw ==
    (pc = "done" /\ rules = TicTacToe) =>
        /\ ZeroBoard \in Stored
        /\ Value(ZeroBoard) = 0

C6_Witness ==
    /\ pc = "done"
    /\ rules = TicTacToe
    /\ \E s \in Stored : Value(s) = 1 /\ Depth(s) = 5
    /\ \E s \in Stored : Value(s) = -1 /\ Depth(s) = 4

\* the 6-bit squares whose three 2-bit fields are all 00, 01 or 10
ValidSquares == {a + 4 * b + 16 * c : a, b, c \in 0..2}

\* every 2-bit field of the board is 00, 01 or 10
FieldsValid(s) == \A i \in Squares : s[i] \in ValidSquares

\* the piece moved last lies on top of some square as the opponent's (10)
LastMoverIsOpponent(s) ==
    s = ZeroBoard \/ \E i \in Squares : TopField(s[i]) = 2

CanonicalKey(s) ==
    /\ canonical(s) = s
    /\ FieldsValid(s)
    /\ LastMoverIsOpponent(s)

\* C7: at every point of search and solve, the low 54 bits of every
\* non-empty slot are a canonical board, written from the side to move:
\* it is so of the slots filled at the start, and no step fills a slot with
\* anything else.
C7_StoredCanonical ==
    /\ \A s \in Stored : CanonicalKey(s)
    /\ [][\A s \in DOMAIN hash_map' : s \in Stored \/ CanonicalKey(s)]_vars

C7_Witness ==
    /\ pc = "solve"
    /\ \E s \in Stored : flipud(s) # s /\ antitranspose(s) # s /\ hash_map[s] >= 768

\* the eight images of a board under the symmetries of the square
Images(s) ==
    {s, flipud(s), antitranspose(s), flipud(antitranspose(s)),
     antitranspose(flipud(s)), flipud(antitranspose(flipud(s))),
     antitranspose(flipud(antitranspose(s))),
     flipud(antitranspose(flipud(antitranspose(s))))}

\* <<canonical(s), canonical(swap(move(s, m)))>> for every m of get_moves(s)
MovePairs(s) ==
    {<<canonical(s), canonical(swap(move(s, m)))>> : m \in Range(get_moves(s))}

\* C8: for every non-terminal position s reachable under the rules and every
\* move m of get_moves(s), canonical(s) is in
\* get_unmoves(canonical(swap(move(s, m)))).
C8_MoveUnmoveInverse ==
    pc = "done" =>
        \A c \in NonTerminal :
            \A pair \in UNION {MovePairs(s) : s \in Images(c)} :
                pair[1] \in get_unmoves(pair[2])

C8_Witness ==
    /\ pc = "done"
    /\ rules.allow_move
    /\ \E c \in NonTerminal : \E s \in Images(c) :
        /\ s # c
        /\ \E m \in Range(get_moves(s)) :
            /\ m[1] >= 0
            /\ get_terminal_value(swap(move(s, m))) # 0

\* how many squares hold a piece of the given size (1..3) and owner (1, 2)
PiecesOf(s, size, owner) ==
    Cardinality({i \in Squares : Field(s[i], size) = owner})

PieceCountsOk(s) ==
    \A size \in 1..3 :
        IF size <= rules.num_sizes
        THEN /\ PiecesOf(s, size, 1) <= rules.num_per_size
             /\ PiecesOf(s, size, 2) <= rules.num_per_size
             /\ Cardinality({i \in Squares : Field(s[i], size) # 0})
                    <= 2 * rules.num_per_size
        ELSE \A i \in Squares : Field(s[i], size) = 0

\* C11: in every state stored by search, each player has at most
\* num_per_size pieces of each size on the board, covered pieces included,
\* hence at most 2 * num_per_size in total, and no piece is of a size
\* greater than num_sizes: it is so of the slots filled at the start, and no
\* step fills a slot with a board of which it is not.
C11_PieceCounts ==
    /\ \A s \in Stored : PieceCountsOk(s)
    /\ [][\A s \in DOMAIN hash_map' : s \in Stored \/ PieceCountsOk(s)]_vars

C11_Witness ==
    /\ pc = "search"
    /\ rules.num_sizes = 2
    /\ \E s \in Stored :
        /\ PiecesOf(s, 1, 1) = rules.num_per_size
        /\ PiecesOf(s, 2, 1) = rules.num_per_size
        /\ PiecesOf(s, 1, 2) = rules.num_per_size
        /\ PiecesOf(s, 2, 2) = rules.num_per_size
        /\ \E i \in Squares : s[i] \in {6, 9}

\* the program is one thread: the steps before, between and after the two
\* loops are taken once they can be, and as long as a loop is running it
\* goes through one iteration after the other
InLoop == pc \in {"search", "solve"}

LoopsRun == []<><<InLoop>>_vars \/ <>[](~InLoop)

SpecFair ==
    /\ Spec
    /\ WF_vars(StartSearch)
    /\ WF_vars(SearchDone)
    /\ WF_vars(SolveDone)
    /\ LoopsRun

\* what a step pushed onto a queue that held `kept` of its elements
Pushed(queue, kept) == {queue[k] : k \in (kept + 1)..Len(queue)}

PushedOnQ == Pushed(q', IF q = <<>> THEN 0 ELSE Len(q) - 1)

PushedOnSolved ==
    Pushed(solved', IF pc = "solve" /\ solved # <<>>
                    THEN Len(solved) - 1 ELSE Len(solved))

\* a state is pushed onto q only when its slot was empty and is filled by the
\* step, and onto solved only when its word turns from unsolved to win or
\* loss; filled slots stay filled and wins and losses stay wins and losses
EnqueuedOnce ==
    /\ \A s \in PushedOnQ : s \notin Stored /\ s \in DOMAIN hash_map'
    /\ Cardinality(PushedOnQ) = Len(q') - (IF q = <<>> THEN 0 ELSE Len(q) - 1)
    /\ \A s \in PushedOnSolved :
        /\ unpack_value(Slot(hash_map, s)[1]) \notin {-1, 1}
        /\ unpack_value(Slot(hash_map', s)[1]) \in {-1, 1}
    /\ Cardinality(PushedOnSolved) + Len(solved) =
            Len(solved') + (IF pc = "solve" /\ solved # <<>> THEN 1 ELSE 0)
    /\ \A s \in Stored :
        /\ s \in DOMAIN hash_map'
        /\ Value(s) \in {-1, 1} => hash_map'[s] = hash_map[s]

\* C12: for every rule variant, allow_move = true included, search
\* eventually empties its queue and returns, and solve eventually empties its
\* queue and returns; every state is pushed onto the queue of search at most
\* once and onto the queue of solved states at most once.
C12_Terminates ==
    /\ <>(pc = "solve" /\ q = <<>>)
    /\ <>(pc = "done" /\ solved = <<>>)
    /\ [][EnqueuedOnce]_vars

C12_Witness ==
    /\ pc = "done"
    /\ rules.allow_move
    /\ \E s \in NonTerminal : \E x \in Successors(s) :
        /\ x # s
        /\ get_terminal_value(x) = 0
        /\ s \in Successors(x)

\* C14: solve never changes the set of stored keys: its writes go to slots
\* that are filled already and keep their keys, a predecessor listed by
\* get_unmoves that is not stored is looked up but not stored, and no slot is
\* emptied; once solve has returned, best_move writes nothing.
C14_SolveKeepsKeys ==
    [][/\ pc \in {"solve", "done", "play"} =>
            DOMAIN hash_map' = DOMAIN hash_map
       /\ pc \in {"done", "play"} => hash_map' = hash_map]_vars

C14_Witness ==
    /\ pc = "solve"
    /\ solved # <<>>
    /\ \E s \in Stored : unpack_moves(hash_map[s]) = 1 /\ Value(s) = 1
    /\ \E prev \in get_unmoves(Head(solved)) : prev \notin Stored

\* the upper 10 bits of a filled slot go from old to new by a step forward:
\* key-only to solved, tentative draw to a tentative draw with a smaller
\* counter, or tentative draw to win or loss
Forward(old, new) ==
    \/ old = 0 /\ unpack_value(new) \in {-1, 0, 1}
    \/ /\ unpack_value(old) = 0
       /\ \/ unpack_value(new) = 0 /\ unpack_moves(new) < unpack_moves(old)
          \/ unpack_value(new) \in {-1, 1}

\* C15: every slot only moves forward through empty, key-only, solved: an
\* empty slot is filled with a key only, no slot is emptied, a tentative draw
\* is only rewritten to a tentative draw with a strictly smaller counter or
\* to a win or loss, and a win or loss is never written again.
C15_SlotsMoveForward ==
    [][/\ Stored \subseteq DOMAIN hash_map'
       /\ \A s \in DOMAIN hash_map' :
            IF s \in Stored
            THEN \/ hash_map'[s] = hash_map[s]
                 \/ Forward(hash_map[s], hash_map'[s])
            ELSE hash_map'[s] = 0]_vars

C15_Witness ==
    /\ pc = "solve"
    /\ \E s \in NonTerminal :
        /\ Value(s) = 0
        /\ Depth(s) > 0
        /\ Depth(s) + 1 < Len(get_moves(s))
    /\ \E s \in NonTerminal : Value(s) = -1 /\ Depth(s) = 2

----------------------------------------------------------------------------
(* The rules called on bare boards: every arrangement of small pieces, and
   larger pieces put on top of them by move and swap *)

\* the Game object as declared: num_sizes = 3, num_per_size = 2, allow_move
DefaultRules == Rule(3, 2, TRUE)

FlatBoards ==
    {<<a, b, c, d, e, f, g, h, i>> : a, b, c, d, e, f, g, h, i \in 0..2}

\* what get_terminal_value and canonical return for a board
Query(s) == [value |-> get_terminal_value(s), canon |-> canonical(s)]

SolverIdle ==
    /\ hash_map = EmptyMap
    /\ q = <<>>
    /\ solved = <<>>
    /\ pc = "init"
    /\ best = <<>>
    /\ Unused

InitBoard ==
    /\ rules = DefaultRules
    /\ SolverIdle
    /\ board \in FlatBoards
    /\ out = <<>>
    /\ pin = <<>>

\* get_terminal_value(board) and canonical(board) are called
Evaluate ==
    /\ board # NoBoard
    /\ out = <<>>
    /\ out' = Query(board)
    /\ UNCHANGED <<rules, hash_map, q, solved, pc, best, board, pin>>
    /\ UNCHANGED <<table, probe, history, turn>>

\* move(board, {-size, end}) covers a piece of the opponent with a larger one
Gobble ==
    /\ board # NoBoard
    /\ out # <<>>
    /\ \E size \in 2..rules.num_sizes : \E end \in 0..(GobbleSquares - 1) :
        /\ TopField(board[end + 1]) = 2
        /\ Fits(size, board[end + 1])
        /\ board' = move(board, <<0 - size, end>>)
    /\ out' = Query(board')
    /\ UNCHANGED <<rules, hash_map, q, solved, pc, best, pin>>
    /\ UNCHANGED <<table, probe, history, turn>>

\* swap(board) hands the board to the other player
SwapSides ==
    /\ board # NoBoard
    /\ out # <<>>
    /\ board' = swap(board)
    /\ out' = Query(board')
    /\ UNCHANGED <<rules, hash_map, q, solved, pc, best, pin>>
    /\ UNCHANGED <<table, probe, history, turn>>

NextBoard ==
    \/ Evaluate
    \/ Gobble
    \/ SwapSides

SpecBoard == InitBoard /\ [][NextBoard]_vars

\* owner of the largest piece of a square: 0 none, 1 side to move, 2 opponent
TopOwner(v) == IF v >= 16 THEN v \div 16 ELSE IF v >= 4 THEN v \div 4 ELSE v

\* the 8 lines as sets of squares 0..8: rows, columns and the two diagonals
ThreeInARow ==
    {{3 * r + c : c \in 0..2} : r \in 0..2} \cup
    {{3 * r + c : r \in 0..2} : c \in 0..2} \cup
    {{0, 4, 8}, {2, 4, 6}}

HasLine(s, owner) ==
    \E line \in ThreeInARow : \A sq \in line : TopOwner(s[sq + 1]) = owner

\* the board with every covered piece taken away
TopsOnly(s) ==
    [i \in Squares |->
        IF s[i] >= 16 THEN 16 * (s[i] \div 16)
        ELSE IF s[i] >= 4 THEN 4 * (s[i] \div 4)
        ELSE s[i]]

\* C5: get_terminal_value(s) is -1, 0 or +1; +1 exactly when a line has its
\* three top pieces owned by the side to move, -1 exactly when no line is
\* owned by the side to move and a line is owned by the opponent; covered
\* pieces never count.
C5_TerminalValue ==
    out # <<>> /\ board # NoBoard =>
        /\ out.value \in {-1, 0, 1}
        /\ out.value = 1 <=> HasLine(board, 1)
        /\ out.value = -1 <=> (~HasLine(board, 1) /\ HasLine(board, 2))
        /\ out.value = get_terminal_value(TopsOnly(board))

C5_Witness ==
    /\ board # NoBoard
    /\ out # <<>>
    /\ out.value = 1
    /\ HasLine(board, 2)
    /\ board[1] = 6
    /\ board[2] = 1
    /\ board[3] = 1

\* the 8 symmetries of the square: the four rotations of the board
\*   0 1 2
\*   3 4 5
\*   6 7 8
\* and its four mirror images
Orbit(s) ==
    { s,
      <<s[7], s[4], s[1], s[8], s[5], s[2], s[9], s[6], s[3]>>,
      <<s[9], s[8], s[7], s[6], s[5], s[4], s[3], s[2], s[1]>>,
      <<s[3], s[6], s[9], s[2], s[5], s[8], s[1], s[4], s[7]>>,
      <<s[7], s[8], s[9], s[4], s[5], s[6], s[1], s[2], s[3]>>,
      <<s[3], s[2], s[1], s[6], s[5], s[4], s[9], s[8], s[7]>>,
      <<s[1], s[4], s[7], s[2], s[5], s[8], s[3], s[6], s[9]>>,
      <<s[9], s[6], s[3], s[8], s[5], s[2], s[7], s[4], s[1]>> }

\* C9: canonical(canonical(s)) = canonical(s), canonical(g(s)) = canonical(s)
\* for each of the 8 symmetries g generated by flipud and antitranspose, and
\* the alternating sequence of canonical() runs through the whole orbit.
C9_CanonicalOrbit ==
    out # <<>> /\ board # NoBoard =>
        /\ canonical(out.canon) = out.canon
        /\ Images(board) = Orbit(board)
        /\ \A t \in Orbit(board) :
            /\ canonical(t) = out.canon
            /\ t = out.canon \/ BoardLess(out.canon, t)
        /\ out.canon \in Orbit(board)

C9_Witness ==
    /\ board # NoBoard
    /\ out # <<>>
    /\ Cardinality(Orbit(board)) = 8
    /\ board[1] > 16
    /\ out.canon \notin {board, flipud(board), antitranspose(board)}

----------------------------------------------------------------------------
(* pack called on its own *)

InitPack ==
    /\ rules = DefaultRules
    /\ SolverIdle
    /\ board = NoBoard
    /\ out = <<>>
    /\ pin \in {-1, 0, 1} \X (0..MaxCount)

\* pack(value, moves), read through its upper 10 bits
Pack ==
    /\ pin # <<>>
    /\ out = <<>>
    /\ out' = [word |-> pack(pin[1], pin[2])]
    /\ UNCHANGED <<rules, hash_map, q, solved, pc, best, board, pin>>
    /\ UNCHANGED <<table, probe, history, turn>>

NextPack == Pack

SpecPack == InitPack /\ [][NextPack]_vars

\* outcome <<v1, k1>> is better for the side to move than outcome <<v2, k2>>
Better(v1, k1, v2, k2) ==
    \/ v1 > v2
    \/ v1 = 1 /\ v2 = 1 /\ k1 < k2
    \/ v1 = -1 /\ v2 = -1 /\ k1 > k2

\* C10 as stated: a better outcome for the side to move of the word is a
\* larger packed word: faster win > slower win > draw > slower loss > faster
\* loss.
C10_BetterIsLarger ==
    (pin # <<>> /\ out # <<>>) =>
        \A v \in {-1, 0, 1} : \A k \in 0..MaxCount :
            Better(pin[1], pin[2], v, k) => out.word > pack(v, k)

\* C10 amended: a better outcome for the side to move of the word is a
\* smaller packed word: every loss word is larger than every draw word, every
\* draw word larger than every win word, a win in more moves larger than a
\* win in fewer, a loss in fewer moves larger than a loss in more.
C10_BetterIsSmaller ==
    (pin # <<>> /\ out # <<>>) =>
        \A v \in {-1, 0, 1} : \A k \in 0..MaxCount :
            Better(pin[1], pin[2], v, k) => out.word < pack(v, k)

C10_Witness ==
    /\ pin = <<-1, MaxCount>>
    /\ out # <<>>
    /\ out.word = 1023 - MaxCount

----------------------------------------------------------------------------
(* The moves of the game, told from the rules rather than from get_moves *)

\* size of the largest piece of a square, 0 if the square is empty
TopSize(v) == IF v >= 16 THEN 3 ELSE IF v >= 4 THEN 2 ELSE IF v >= 1 THEN 1 ELSE 0

\* relocations of an own top piece onto a square that holds only smaller
\* pieces, and placements of a size not yet all on the board onto such a square
LegalMoves(s) ==
    {m \in (0..8) \X (0..8) :
        /\ rules.allow_move
        /\ TopOwner(s[m[1] + 1]) = 1
        /\ TopSize(s[m[2] + 1]) < TopSize(s[m[1] + 1])}
    \cup
    {m \in {0 - size : size \in 1..rules.num_sizes} \X (0..8) :
        /\ PiecesOf(s, 0 - m[1], 1) < rules.num_per_size
        /\ TopSize(s[m[2] + 1]) < 0 - m[1]}

LegalSuccessors(s) == {canonical(swap(move(s, m))) : m \in LegalMoves(s)}

\* the moves of get_moves(s) lead to pairwise distinct canonical successors,
\* and these are the canonical successors of the legal moves
MovesCover(s) ==
    LET moves == get_moves(s)
        succ  == {canonical(swap(move(s, moves[k]))) : k \in 1..Len(moves)}
    IN  /\ Cardinality(succ) = Len(moves)
        /\ succ = LegalSuccessors(s)

\* C16: for every position s that search expands, and each of its images
\* under the symmetries, the moves of get_moves(s) have pairwise distinct
\* canonical successors and every legal move has the canonical successor of
\* a returned move; the counter that search writes is the number of distinct
\* canonical successors.
C16_MovesDistinctAndComplete ==
    [][(pc = "search" /\ q # <<>> /\ get_terminal_value(Head(q)) = 0) =>
            /\ \A s \in Images(Head(q)) : MovesCover(s)
            /\ LET count == Cardinality(LegalSuccessors(Head(q)))
               IN  /\ hash_map'[Head(q)] = pack(0, count)
                   /\ unpack_moves(hash_map'[Head(q)]) = count]_vars

C16_Witness ==
    /\ pc = "search"
    /\ rules.allow_move
    /\ \E s \in NonTerminal :
        /\ hash_map[s] # 0
        /\ Depth(s) = Len(get_moves(s))
        /\ Len(get_moves(s)) < Cardinality(LegalMoves(s))
        /\ \E m \in Range(get_moves(s)) : m[1] >= 0
        /\ Cardinality(Images(s)) = 8

----------------------------------------------------------------------------
(* The hash map as the vector it is: hash() and the probing of lookup().
   A 64-bit word is kept as its eight bytes, lowest first. *)

\* const int HASH_EXP = 29 in the program: the vector has 2^HASH_EXP slots
HASH_EXP == 2

\* how many of the boards of KeyList are looked up
NumKeys == 4

\* longest run of the loop of lookup() that is followed
MaxProbes == Pow2(HASH_EXP) + 1

Bytes == 1..8

Byte(h, k) == IF k \in Bytes THEN h[k] ELSE 0

\* the low 54 bits of a word: square k is held in bits 6k .. 6k+5
KeyBytes(s) ==
    LET lo == s[1] + 64 * s[2] + 4096 * s[3] + 262144 * s[4]
        hi == s[5] + 64 * s[6] + 4096 * s[7] + 262144 * s[8]
    IN  << lo % 256, (lo \div 256) % 256, lo \div 65536,
           hi % 256, (hi \div 256) % 256, hi \div 65536, s[9], 0 >>

\* h >> n
ShiftRight(h, n) ==
    LET skip == n \div 8
        bits == n % 8
    IN  [k \in Bytes |->
            (Byte(h, k + skip) \div Pow2(bits))
            + (Byte(h, k + skip + 1) % Pow2(bits)) * Pow2(8 - bits)]

XorByte(a, b) ==
    LET bit(k) == ((a \div Pow2(k)) + (b \div Pow2(k))) % 2
    IN  bit(0) + 2 * bit(1) + 4 * bit(2) + 8 * bit(3)
        + 16 * bit(4) + 32 * bit(5) + 64 * bit(6) + 128 * bit(7)

\* a ^ b
Xor64(a, b) == [k \in Bytes |-> XorByte(a[k], b[k])]

RECURSIVE ColumnSum(_, _, _, _)
ColumnSum(a, c, k, i) ==
    IF i > k THEN 0 ELSE a[i] * c[k + 1 - i] + ColumnSum(a, c, k, i + 1)

RECURSIVE MulFrom(_, _, _, _, _)
MulFrom(a, c, k, carry, acc) ==
    IF k > 8 THEN acc
    ELSE LET column == carry + ColumnSum(a, c, k, 1)
         IN  MulFrom(a, c, k + 1, column \div 256, Append(acc, column % 256))

\* a * c on std::uint64_t: the product modulo 2^64
Multiply64(a, c) == MulFrom(a, c, 1, 0, <<>>)

\* 0xbf58476d1ce4e5b9
HashFactor1 == <<185, 229, 228, 28, 109, 71, 88, 191>>

\* 0x94d049bb133111eb
HashFactor2 == <<235, 17, 49, 19, 187, 73, 208, 148>>

\* SplitMix64
hash(s) ==
    LET h0 == KeyBytes(s)
        h1 == Xor64(h0, ShiftRight(h0, 30))
        h2 == Multiply64(h1, HashFactor1)
        h3 == Xor64(h2, ShiftRight(h2, 27))
        h4 == Multiply64(h3, HashFactor2)
    IN  Xor64(h4, ShiftRight(h4, 31))

\* what i = h contributes to (i + step) & HASH_MASK: the low HASH_EXP bits
low_index(h) == (h[1] + 256 * h[2]) % Pow2(HASH_EXP)

\* slip: the step is the high bits as they are
probe_step_high_bits(h) == (h[7] + 256 * h[8]) \div Pow2(16 - HASH_EXP)

\* step = (h >> (64 - HASH_EXP)) | 1
probe_step(h) ==
    LET high == (h[7] + 256 * h[8]) \div Pow2(16 - HASH_EXP)
    IN  IF high % 2 = 0 THEN high + 1 ELSE high

\* slip: the next slot is the neighbour
next_index_linear(i, step) == (i + 1) % Pow2(HASH_EXP)

\* i = (i + step) & HASH_MASK
next_index(i, step) == (i + step) % Pow2(HASH_EXP)

\* the first states search() stores under the rules as declared, then others
KeyList ==
    << ZeroBoard,
       <<2, 0, 0, 0, 0, 0, 0, 0, 0>>,
       <<0, 2, 0, 0, 0, 0, 0, 0, 0>>,
       <<0, 0, 0, 0, 2, 0, 0, 0, 0>>,
       <<8, 0, 0, 0, 0, 0, 0, 0, 0>>,
       <<0, 8, 0, 0, 0, 0, 0, 0, 0>>,
       <<0, 0, 0, 0, 8, 0, 0, 0, 0>>,
       <<32, 0, 0, 0, 0, 0, 0, 0, 0>> >>

Keys == {KeyList[k] : k \in 1..NumKeys}

\* the upper 10 bits callers write: s0 as it stands, a draw, a win
HiList == {0, pack(0, 1), pack(1, 0)}

Slots == 0..(Pow2(HASH_EXP) - 1)

EmptySlots(t) == {i \in Slots : t[i + 1] = STATE_EMPTY}

\* hash_map.resize(1 << HASH_EXP, STATE_EMPTY)
EmptyTable == [i \in 1..Pow2(HASH_EXP) |-> STATE_EMPTY]

InitTable ==
    /\ rules = DefaultRules
    /\ hash_map = EmptyMap
    /\ q = <<>>
    /\ solved = <<>>
    /\ pc = "init"
    /\ best = <<>>
    /\ board = NoBoard
    /\ out = <<>>
    /\ pin = <<>>
    /\ history = <<>>
    /\ turn = 0
    /\ table = EmptyTable
    /\ probe = <<>>

\* lookup(s) is entered: h = hash(s), step, i = h
Lookup ==
    /\ table # <<>>
    /\ probe = <<>>
    /\ \E s \in Keys :
        LET h == hash(s)
        IN  probe' = [s |-> s, i |-> low_index(h), step |-> probe_step(h),
                      seen |-> <<>>, ret |-> -1]
    /\ UNCHANGED <<rules, hash_map, q, solved, pc, best, board, out, pin>>
    /\ UNCHANGED <<table, history, turn>>

\* one turn of the loop: the index is advanced, then the slot is examined
ProbeStep ==
    /\ probe # <<>>
    /\ probe.ret = -1
    /\ Len(probe.seen) < MaxProbes
    /\ LET i == next_index(probe.i, probe.step)
           found == \/ table[i + 1] = STATE_EMPTY
                    \/ table[i + 1][2] = probe.s
       IN  probe' = [probe EXCEPT !.i = i,
                                  !.seen = Append(probe.seen, i),
                                  !.ret = IF found THEN i ELSE -1]
    /\ UNCHANGED <<rules, hash_map, q, solved, pc, best, board, out, pin>>
    /\ UNCHANGED <<table, history, turn>>

\* *lookup(s) = s | (hi << 54); the callers leave a slot of the vector empty
StoreAt ==
    /\ probe # <<>>
    /\ probe.ret # -1
    /\ table[probe.ret + 1] = STATE_EMPTY => Cardinality(EmptySlots(table)) > 1
    /\ \E hi \in HiList :
        table' = [table EXCEPT ![probe.ret + 1] = <<hi, probe.s>>]
    /\ probe' = <<>>
    /\ UNCHANGED <<rules, hash_map, q, solved, pc, best, board, out, pin>>
    /\ UNCHANGED <<history, turn>>

\* the caller only reads *lookup(s)
Drop ==
    /\ probe # <<>>
    /\ probe.ret # -1
    /\ probe' = <<>>
    /\ UNCHANGED <<rules, hash_map, q, solved, pc, best, board, out, pin>>
    /\ UNCHANGED <<table, history, turn>>

NextTable ==
    \/ Lookup
    \/ ProbeStep
    \/ StoreAt
    \/ Drop

SpecTable == InitTable /\ [][NextTable]_vars

\* the keys held in the vector
TableKeys == {table[i + 1][2] : i \in Slots \ EmptySlots(table)}

\* the slots the loop of lookup() examines in n turns from index i
ProbeCycle(i, step, n) == {(i + k * step) % Pow2(HASH_EXP) : k \in 1..n}

\* C17: while the vector keeps an empty slot, lookup(s) returns within
\* 2^HASH_EXP turns of its loop, never examines a slot twice, and returns the
\* slot that holds key s if s is stored and an empty slot otherwise; the step
\* is odd, so the slots it would examine in 2^HASH_EXP turns are all the slots.
C17_LookupFindsSlot ==
    /\ EmptySlots(table) # {}
    /\ \A i, j \in Slots \ EmptySlots(table) :
        table[i + 1][2] = table[j + 1][2] => i = j
    /\ probe # <<>> =>
        /\ probe.step % 2 = 1
        /\ ProbeCycle(probe.i, probe.step, Pow2(HASH_EXP)) = Slots
        /\ Len(probe.seen) <= Pow2(HASH_EXP)
        /\ probe.ret = -1 => Len(probe.seen) < Pow2(HASH_EXP)
        /\ \A a, b \in 1..Len(probe.seen) :
            probe.seen[a] = probe.seen[b] => a = b
        /\ probe.ret # -1 =>
            IF probe.s \in TableKeys
            THEN table[probe.ret + 1][2] = probe.s
            ELSE table[probe.ret + 1] = STATE_EMPTY

\* a stored key is found in the third slot examined, the two before it hold
\* other keys, and a single slot of the vector is left empty
C17_Witness ==
    /\ probe # <<>>
    /\ probe.ret # -1
    /\ Len(probe.seen) = 3
    /\ probe.s \in TableKeys
    /\ table[probe.ret + 1][2] = probe.s
    /\ Cardinality(EmptySlots(table)) = 1

\* C18 as stated: the first slot lookup(s) examines is the one at the low
\* HASH_EXP bits of hash(s).
C18_FirstSlotIsLowBits ==
    (probe # <<>> /\ probe.seen # <<>>) =>
        probe.seen[1] = low_index(hash(probe.s))

\* C18: the index starts at the low HASH_EXP bits of hash(s) and is advanced by
\* step = (high HASH_EXP bits of hash(s)) | 1 modulo 2^HASH_EXP before every
\* examination, the first included: the k-th slot examined is
\* (low bits + k * step) mod 2^HASH_EXP.
C18_ProbeSequence ==
    probe # <<>> =>
        LET h    == hash(probe.s)
            high == (h[7] + 256 * h[8]) \div Pow2(16 - HASH_EXP)
        IN  /\ probe.step = (IF high % 2 = 0 THEN high + 1 ELSE high)
            /\ \A k \in 1..Len(probe.seen) :
                probe.seen[k]
                    = (low_index(h) + k * probe.step) % Pow2(HASH_EXP)
            /\ probe.seen # <<>> => probe.i = probe.seen[Len(probe.seen)]

\* a lookup that examined three slots with a step other than 1, the first of
\* them not the slot at the low bits of the hash
C18_Witness ==
    /\ probe # <<>>
    /\ Len(probe.seen) = 3
    /\ probe.step = 3
    /\ probe.seen[1] # low_index(hash(probe.s))
    /\ probe.ret # -1

----------------------------------------------------------------------------
(* main(): the Game is constructed (init solves it), then play() is called *)

\* longest vector `states` that is followed
MaxHistory == 6

Last(seq) == seq[Len(seq)]

InitPlay ==
    /\ rules = TicTacToe
    /\ hash_map = EmptyMap
    /\ q = <<>>
    /\ solved = <<>>
    /\ pc = "init"
    /\ best = <<>>
    /\ Idle

\* std::vector<State> states(1, 0); int turn = 1;
PlayBegin ==
    /\ pc = "done"
    /\ history' = <<ZeroBoard>>
    /\ turn' = 1
    /\ pc' = "loop"
    /\ UNCHANGED <<rules, hash_map, q, solved, best, board, out, pin>>
    /\ UNCHANGED <<table, probe>>

\* State s = states.back(); *lookup(canonical(s)); if (moves == 0) break;
\* back() of an empty vector is undefined: a hardened build aborts, any other
\* outcome is not followed
PlayRead ==
    /\ pc = "loop"
    /\ IF history = <<>>
       THEN pc' \in {"aborted", "undefined"}
       ELSE LET s     == Last(history)
                word  == Slot(hash_map, canonical(s))
                moves == unpack_moves(word[1])
            IN  pc' = IF moves = 0 THEN "over" ELSE "prompt"
    /\ UNCHANGED <<rules, hash_map, q, solved, best, board, out, pin>>
    /\ UNCHANGED <<table, probe, history, turn>>

\* (0, 0) is entered: best_move(s) is shown and the prompt is repeated; the
\* Move best lives until the prompt is left
PlayBest ==
    /\ pc = "prompt"
    /\ best' = <<Last(history), best_move(Last(history))>>
    /\ UNCHANGED <<rules, hash_map, q, solved, pc, board, out, pin>>
    /\ UNCHANGED <<table, probe, history, turn>>

\* (-1, -1) is entered: states.pop_back(); turn = 3 - turn;
PlayUndo ==
    /\ pc = "prompt"
    /\ history' = SubSeq(history, 1, Len(history) - 1)
    /\ turn' = 3 - turn
    /\ pc' = "loop"
    /\ best' = <<>>
    /\ UNCHANGED <<rules, hash_map, q, solved, board, out, pin>>
    /\ UNCHANGED <<table, probe>>

\* a move of get_moves(s) is entered: states.push_back(swap(move(s, m)));
\* turn = 3 - turn;
PlayMove ==
    /\ pc = "prompt"
    /\ Len(history) < MaxHistory
    /\ \E m \in Range(get_moves(Last(history))) :
        history' = Append(history, swap(move(Last(history), m)))
    /\ turn' = 3 - turn
    /\ pc' = "loop"
    /\ best' = <<>>
    /\ UNCHANGED <<rules, hash_map, q, solved, board, out, pin>>
    /\ UNCHANGED <<table, probe>>

NextPlay ==
    \/ StartSearch
    \/ SearchStep
    \/ SearchDone
    \/ SolveStep
    \/ SolveDone
    \/ PlayBegin
    \/ PlayRead
    \/ PlayBest
    \/ PlayUndo
    \/ PlayMove

SpecPlay == InitPlay /\ [][NextPlay]_vars

\* C19 as stated: the positions of the history are a line of play from the
\* empty board, each reached from the one before it by a move of get_moves, so
\* that an undo leaves current the position before the move undone; turn is 1
\* exactly when the history has odd length; and the history is not empty when
\* the loop reads its current position.
C19_UndoKeepsHistory ==
    pc \in {"loop", "prompt", "over"} =>
        /\ \A k \in 1..Len(history) :
            IF k = 1 THEN history[k] = ZeroBoard
            ELSE \E m \in Range(get_moves(history[k - 1])) :
                    history[k] = swap(move(history[k - 1], m))
        /\ turn = 1 <=> Len(history) % 2 = 1
        /\ pc = "loop" => history # <<>>

----------------------------------------------------------------------------
(* get_unmoves against get_moves, and the counters solve takes them off *)

\* the pairs <<p, c>> of stored states with p in get_unmoves(c)
UnmovePairs ==
    UNION {{<<p, c>> : p \in get_unmoves(c) \cap Stored} : c \in Stored}

\* the pairs <<p, c>> with p stored and still in play and c = canonical(
\* swap(move(p, m))) for a move m of get_moves(p)
StoredMovePairs ==
    {e \in UNION {{<<p, c>> : c \in Successors(p)} : p \in NonTerminal} : TRUE}

\* of the states succ, those solve has not yet taken off a counter: all but
\* the wins already popped from the queue sq
Uncounted(h, sq, succ) ==
    LET queued == Range(sq)
    IN  {x \in succ :
            ~(x \in DOMAIN h /\ unpack_value(h[x]) = 1 /\ x \notin queued)}

\* what one turn of solve does to the counters of the predecessors of c
CountedOnce ==
    (pc = "solve" /\ solved # <<>>) =>
        LET c == Head(solved)
        IN  \A p \in get_unmoves(c) \cap Stored :
                LET succ == Successors(p)
                IN  /\ get_terminal_value(p) = 0
                    /\ c \in succ
                    /\ Value(p) = 0 =>
                        /\ Depth(p) >= 1
                        /\ Depth(p)
                            = Cardinality(Uncounted(hash_map, solved, succ))
                        /\ IF Value(c) = 1
                           THEN IF Depth(p) = 1
                                THEN unpack_value(hash_map'[p]) = -1
                                ELSE /\ unpack_value(hash_map'[p]) = 0
                                     /\ unpack_moves(hash_map'[p]) = Depth(p) - 1
                                     /\ unpack_moves(hash_map'[p])
                                         = Cardinality(Uncounted(hash_map',
                                                                 solved', succ))
                           ELSE unpack_value(hash_map'[p]) = 1

\* C20: for every stored state c, every stored state p of get_unmoves(c) is
\* non-terminal and has c among its canonical successors; every turn of solve
\* finds the counter of such a p that is still a draw at least 1 and equal to
\* the number of its distinct successors not yet taken off, and takes it down
\* by one for a win popped, so it is never taken below zero.
C20_UnmoveSoundness ==
    /\ [](pc = "done" => UnmovePairs \subseteq StoredMovePairs)
    /\ [][CountedOnce]_vars

\* solve is about to pop a win with two stored predecessors still drawn: one
\* with its last count, which becomes a loss, and one with counts to spare
C20_Witness ==
    /\ pc = "solve"
    /\ solved # <<>>
    /\ Value(Head(solved)) = 1
    /\ \E p1, p2 \in get_unmoves(Head(solved)) \cap Stored :
        /\ Value(p1) = 0 /\ Depth(p1) = 1
        /\ Value(p2) = 0 /\ Depth(p2) > 1

----------------------------------------------------------------------------
(* The count play() reads from a stored word to tell whether the game is over *)

\* the game is over at s: a line is complete, or the side to move has no move
Finished(s) == get_terminal_value(s) # 0 \/ get_moves(s) = <<>>

\* C21: once init has returned, every stored word decodes to a value in
\* {-1, 0, +1}, and its count decoded by unpack_moves is 0 if and only if the
\* game is over at its state (get_terminal_value(s) # 0 or get_moves(s) empty),
\* so that the test moves == 0 of play() holds exactly at finished positions.
C21_ZeroCountIffFinished ==
    pc = "done" =>
        \A s \in Stored :
            /\ Value(s) \in {-1, 0, 1}
            /\ Depth(s) = 0 <=> Finished(s)

\* init has returned with, among the stored states, a position with a line
\* complete, a drawn position with no move left, a drawn position with moves
\* left, and a win and a loss some moves ahead
C21_Witness ==
    /\ pc = "done"
    /\ \E s \in Stored : get_terminal_value(s) # 0 /\ Depth(s) = 0
    /\ \E s \in NonTerminal :
        get_moves(s) = <<>> /\ Value(s) = 0 /\ Depth(s) = 0
    /\ \E s \in NonTerminal : Value(s) = 0 /\ Depth(s) > 0
    /\ \E s \in NonTerminal : Value(s) = 1 /\ Depth(s) > 0
    /\ \E s \in NonTerminal : Value(s) = -1 /\ Depth(s) > 0

====
